---- MODULE Spec2Model ----
(***************************************************************************)
(* Model of src/server.py: an MCP server over stdio with one registered    *)
(* tool, get_email_campaign_data, and the __main__ block that runs it.     *)
(*                                                                         *)
(* Python values are records [type, value]; the value of a str is its      *)
(* sequence of words, the value of None is the empty sequence.             *)
(***************************************************************************)
EXTENDS Naturals, Sequences, FiniteSets

VARIABLES
    pc,          \* position of the __main__ block
    cause,       \* how serving ended
    exitStatus,  \* exit status of the process, NoStatus while it runs
    log,         \* records emitted through logger
    sourceFile,  \* mock_data.json, the file the tool is meant to load
    fileReads,   \* number of times the source file has been opened
    history      \* the tool calls dispatched so far, with their results

vars == <<pc, cause, exitStatus, log, sourceFile, fileReads, history>>

\* Bound on the number of tool calls dispatched in one run of the server.
MaxCalls == 3

----------------------------------------------------------------------------
\* Python values

None == [type |-> "NoneType", value |-> <<>>]

Str(words) == [type |-> "str", value |-> words]

Range(s) == {s[i] : i \in DOMAIN s}

RECURSIVE SetToSeq(_)
SetToSeq(S) ==
    IF S = {} THEN <<>>
    ELSE LET x == CHOOSE y \in S : TRUE IN <<x>> \o SetToSeq(S \ {x})

RECURSIVE Flatten(_)
Flatten(ss) == IF ss = <<>> THEN <<>> ELSE Head(ss) \o Flatten(Tail(ss))

----------------------------------------------------------------------------
\* The data the tool's docstring and requirements name

\* query_type values the docstring recognises
ValidQueryTypes == {"all", "performance", "subjects", "metrics"}

\* query_type arguments tried: the recognised ones and two others
QueryTypes == ValidQueryTypes \cup {"bogus", ""}

\* names of the campaigns the source file may hold
CampaignNames == {"Spring Sale", "Summer Promo"}

\* campaign_name arguments tried: None (the default), a name the file may
\* hold, a name it never holds
CampaignArgs == {None, Str(<<"Spring Sale">>), Str(<<"Unknown">>)}

\* fields of a campaign record
PerformanceFields == {"conversion_rate", "open_rate", "revenue"}
SubjectFields == {"subject_line", "subject_metrics"}
Fields == PerformanceFields \cup SubjectFields \cup {"audience"}

\* the fields each query_type is required to return
Projection(query_type) ==
    CASE query_type = "performance" -> PerformanceFields
      [] query_type = "subjects" -> SubjectFields
      [] query_type = "metrics" -> PerformanceFields \cup {"subject_metrics"}
      [] OTHER -> Fields

\* states of the source file: missing, malformed, or holding some records
SourceFiles ==
    {[status |-> "missing", records |-> {}],
     [status |-> "malformed", records |-> {}]}
    \cup {[status |-> "ok", records |-> R] : R \in SUBSET CampaignNames}

\* text of a set of records restricted to a set of fields
FormatRecords(records, fields) ==
    Str(Flatten(SetToSeq({<<r>> \o SetToSeq(fields) : r \in records})))

----------------------------------------------------------------------------
\* The tool

\* returns the whole of every record whatever the arguments
get_email_campaign_data_dump(query_type, campaign_name) ==
    IF sourceFile.status = "ok"
    THEN FormatRecords(sourceFile.records, Fields)
    ELSE None

\* result changes from one call to the next
get_email_campaign_data_counting(query_type, campaign_name) ==
    IF history = <<>> THEN None ELSE Str(<<"call">>)

\* rejects one unrecognised query_type and lets the others through
get_email_campaign_data_mixed(query_type, campaign_name) ==
    IF query_type = "bogus" THEN Str(<<"Error", "InvalidArgument">>) ELSE None

\* result depends on campaign_name
get_email_campaign_data_echo(query_type, campaign_name) ==
    IF campaign_name = None THEN None ELSE campaign_name

\* The body is a docstring, comments and `pass`: the call falls off the end
\* and returns None, whatever the arguments.
get_email_campaign_data(query_type, campaign_name) == None

\* mcp dispatches one tool call while serving
CallTool ==
    /\ pc = "serving"
    /\ Len(history) < MaxCalls
    /\ \E query_type \in QueryTypes, campaign_name \in CampaignArgs :
          history' = Append(history,
              [query_type |-> query_type,
               campaign_name |-> campaign_name,
               result |-> get_email_campaign_data(query_type, campaign_name)])
    /\ UNCHANGED <<pc, cause, exitStatus, log, sourceFile, fileReads>>

----------------------------------------------------------------------------
\* The __main__ block

\* exitStatus while the process runs; <<n>> once it has exited with status n
NoStatus == <<>>

LogRecord(level, words) == [level |-> level, msg |-> words]

\* the messages an Exception raised by mcp.run may carry
FaultMessages == {"broken pipe", "bad frame"}

\* exits 0 whatever ended serving
ExitStatusOf_zero(c) == 0

\* sys.exit(1) in the Exception clause; the other ways out end the script
ExitStatusOf(c) == IF c = "Exception" THEN 1 ELSE 0

\* logger.info("Starting ...") then mcp.run(transport="stdio") starts serving
Start ==
    /\ pc = "init"
    /\ pc' = "serving"
    /\ log' = Append(log, LogRecord("INFO", <<"Starting AI Engineer MCP Server...">>))
    /\ UNCHANGED <<cause, exitStatus, sourceFile, fileReads, history>>

\* except KeyboardInterrupt
Interrupt ==
    /\ pc = "serving"
    /\ pc' = "exited"
    /\ cause' = "KeyboardInterrupt"
    /\ log' = Append(log, LogRecord("INFO", <<"Server stopped by user">>))
    /\ exitStatus' = <<ExitStatusOf("KeyboardInterrupt")>>
    /\ UNCHANGED <<sourceFile, fileReads, history>>

\* except Exception as e
Fault ==
    /\ pc = "serving"
    /\ \E e \in FaultMessages :
          log' = Append(log, LogRecord("ERROR", <<"Server error: ", e>>))
    /\ pc' = "exited"
    /\ cause' = "Exception"
    /\ exitStatus' = <<ExitStatusOf("Exception")>>
    /\ UNCHANGED <<sourceFile, fileReads, history>>

\* mcp.run returns (the stream closed): the script ends
Return ==
    /\ pc = "serving"
    /\ pc' = "exited"
    /\ cause' = "return"
    /\ exitStatus' = <<ExitStatusOf("return")>>
    /\ UNCHANGED <<log, sourceFile, fileReads, history>>

----------------------------------------------------------------------------
Init ==
    /\ pc = "init"
    /\ cause = "none"
    /\ exitStatus = NoStatus
    /\ log = <<>>
    /\ sourceFile \in SourceFiles
    /\ fileReads = 0
    /\ history = <<>>

Next == Start \/ CallTool \/ Interrupt \/ Fault \/ Return

Spec == Init /\ [][Next]_vars

TypeOK ==
    /\ pc \in {"init", "serving", "exited"}
    /\ cause \in {"none", "KeyboardInterrupt", "Exception", "return"}
    /\ exitStatus \in {NoStatus, <<0>>, <<1>>}
    /\ sourceFile \in SourceFiles
    /\ fileReads \in Nat
    /\ Len(history) <= MaxCalls

----------------------------------------------------------------------------
\* Reading a result

Words(r) == Range(r.value)

IsText(r) == r.type = "str"

\* the error shape for a named condition
IsError(r, condition) ==
    /\ IsText(r)
    /\ Len(r.value) >= 2
    /\ r.value[1] = "Error"
    /\ r.value[2] = condition

Name(campaign_name) == campaign_name.value[1]

Matches(campaign_name) ==
    /\ campaign_name # None
    /\ sourceFile.status = "ok"
    /\ Name(campaign_name) \in sourceFile.records

Calls == DOMAIN history

SameArgs(i, j) ==
    /\ history[i].query_type = history[j].query_type
    /\ history[i].campaign_name = history[j].campaign_name

InvalidCalls == {i \in Calls : history[i].query_type \notin ValidQueryTypes}

----------------------------------------------------------------------------
\* C1: every call of get_email_campaign_data returns a text string, never
\* the absent value, whatever query_type and campaign_name are.
C1_ReturnsText ==
    \A i \in Calls : IsText(history[i].result)

\* C2: with a recognised query_type and no campaign_name, the response names
\* every record of the source file.
C2_CoversEveryRecord ==
    \A i \in Calls :
        ( /\ history[i].query_type \in ValidQueryTypes
          /\ history[i].campaign_name = None
          /\ sourceFile.status = "ok" )
        => sourceFile.records \subseteq Words(history[i].result)

\* C3: with a campaign_name that names a record of the source file, the
\* response holds that record and no other, with the fields query_type
\* projects.
C3_CoversExactlyTheMatch ==
    \A i \in Calls :
        ( /\ history[i].query_type \in ValidQueryTypes
          /\ Matches(history[i].campaign_name) )
        => /\ IsText(history[i].result)
           /\ Words(history[i].result) \cap CampaignNames
                 = {Name(history[i].campaign_name)}
           /\ Words(history[i].result) \cap Fields
                 = Projection(history[i].query_type)

\* C4: with a campaign_name that names no record of the source file, the
\* response is the NotFound error shape.
C4_NotFound ==
    \A i \in Calls :
        ( /\ history[i].campaign_name # None
          /\ sourceFile.status = "ok"
          /\ Name(history[i].campaign_name) \notin sourceFile.records )
        => IsError(history[i].result, "NotFound")

\* C5: a "performance" response never holds subject-line text and a
\* "subjects" response never holds revenue figures, whatever the source
\* file holds.
C5_ProjectionCorrect ==
    \A i \in Calls :
        /\ history[i].query_type = "performance"
              => "subject_line" \notin Words(history[i].result)
        /\ history[i].query_type = "subjects"
              => "revenue" \notin Words(history[i].result)

C5_Witness ==
    /\ sourceFile.status = "ok"
    /\ sourceFile.records # {}
    /\ \E i, j \in Calls :
          /\ history[i].query_type = "performance"
          /\ history[j].query_type = "subjects"

\* C6: two calls with the same query_type and campaign_name return the same
\* result, however many other calls came between them (the source file does
\* not change while the server runs).
C6_Idempotent ==
    \A i, j \in Calls : SameArgs(i, j) => history[i].result = history[j].result

C6_Witness ==
    \E i, k, j \in Calls :
        /\ i < k
        /\ k < j
        /\ SameArgs(i, j)
        /\ ~SameArgs(i, k)

\* C7: with the source file missing or malformed, the call returns the
\* DataUnavailable error shape, and the process keeps serving.
C7_DataUnavailable ==
    \A i \in Calls :
        sourceFile.status \in {"missing", "malformed"}
        => IsError(history[i].result, "DataUnavailable")

\* C8: an interrupt ends the process with status 0 after the stop is logged;
\* an Exception is logged as an error and ends the process with a non-zero
\* status; the process has no exit status before it ends.
C8_ExitStatus ==
    /\ cause = "KeyboardInterrupt"
          => /\ exitStatus = <<0>>
             /\ log[Len(log)] = LogRecord("INFO", <<"Server stopped by user">>)
    /\ cause = "Exception"
          => /\ exitStatus # NoStatus
             /\ exitStatus[1] # 0
             /\ log[Len(log)].level = "ERROR"
    /\ pc # "exited" => exitStatus = NoStatus

C8_Witness ==
    /\ pc = "exited"
    /\ cause = "Exception"
    /\ exitStatus = <<1>>
    /\ history # <<>>

\* C9: calls with an unrecognised query_type are treated alike: either all
\* of them yield the InvalidArgument error shape, or all of them yield what
\* one recognised query_type yields for the same campaign_name; and each
\* returns a value instead of raising.
C9_UnrecognisedConsistent ==
    /\ \/ \A i \in InvalidCalls : IsError(history[i].result, "InvalidArgument")
       \/ \E d \in ValidQueryTypes : \A i \in InvalidCalls :
             history[i].result
                 = get_email_campaign_data(d, history[i].campaign_name)
    /\ \A i \in InvalidCalls : history[i].result.type \in {"str", "NoneType"}

C9_Witness ==
    \E i, j \in InvalidCalls :
        /\ history[i].query_type # history[j].query_type
        /\ history[i].campaign_name # history[j].campaign_name

\* C10: a call leaves the log and the source file as they were, opens no
\* file, and every call returns the same value whatever its arguments.
C10_NoEffectNoDependence ==
    [][history' # history =>
          /\ UNCHANGED <<log, sourceFile, fileReads>>
          /\ \A i, j \in DOMAIN history' :
                history'[i].result = history'[j].result]_vars

C10_Witness ==
    /\ fileReads = 0
    /\ Len(log) = 1
    /\ \E i, j \in Calls :
          /\ history[i].query_type # history[j].query_type
          /\ history[i].campaign_name # history[j].campaign_name
====
